---- MODULE Spec2Model ----
(***************************************************************************)
(* A model of the subscription-manager backend: the in-memory record store *)
(* (app/database.py), the HTTP handlers over it (app/main.py) and the      *)
(* statement detector (app/claude_service.py) and the payment adapter      *)
(* (app/stripe_service.py).                                                *)
(*                                                                         *)
(* Conventions                                                             *)
(*   - a Python dict is a sequence of records in insertion order, keyed by *)
(*     the records' id field;                                              *)
(*   - Optional[T] is a sequence of length 0 (None) or 1 (the value);      *)
(*   - a datetime is a number of hours relative to the instant at which    *)
(*     the store was constructed; a timedelta is a number of hours;        *)
(*   - a money amount is a number of hundredths of a cent (15.99 is        *)
(*     159900), so that 15% of an amount in whole cents is exact.          *)
(*     Floating-point rounding is not modelled.                            *)
(***************************************************************************)
EXTENDS Integers, Sequences, FiniteSets, TLC

VARIABLES
    users,              \* db.users              (database.py:8)
    subscriptions,      \* db.subscriptions      (database.py:9)
    bill_negotiations,  \* db.bill_negotiations  (database.py:10)
    price_alerts,       \* db.price_alerts       (database.py:11)
    uuids,              \* how many uuid4() ids each model class has drawn
    now,                \* datetime.utcnow(), in hours since construction
    response,           \* the last value handed back to a caller
    detector,           \* the state of one analyze_bank_statement call
    stripe              \* the state of one call of the payment adapter

vars == <<users, subscriptions, bill_negotiations, price_alerts, uuids, now,
          response, detector, stripe>>

store_vars == <<users, subscriptions, bill_negotiations, price_alerts, uuids>>

----------------------------------------------------------------------------
(* Bounds of the model.                                                    *)

MaxNewSubs == 2
MaxNewNegs == 1
MaxInsightSubs == 2
MaxTicks == 2
MaxCandidates == 2
MaxTokens == 3

----------------------------------------------------------------------------
(* Python values.                                                          *)

None == <<>>
Some(x) == <<x>>
IsNone(o) == Len(o) = 0
Value(o) == o[1]

\* timedelta(days=d), timedelta(hours=h), and timedelta.days
days(d) == d * 24
hours(h) == h
timedelta_days(delta) == delta \div 24

\* a dollar amount written d.cc
Dollars(d, cc) == (d * 100 + cc) * 100

RECURSIVE SumSeq(_)
SumSeq(s) == IF s = <<>> THEN 0 ELSE Head(s) + SumSeq(Tail(s))

----------------------------------------------------------------------------
(* dict operations, on sequences of records keyed by id.                   *)

Keys(d) == {d[i].id : i \in 1..Len(d)}

\* d.get(key)
DictGet(d, key) ==
    IF key \in Keys(d)
    THEN Some(d[CHOOSE i \in 1..Len(d) : d[i].id = key])
    ELSE None

\* d[rec.id] = rec
DictPut(d, rec) ==
    IF rec.id \in Keys(d)
    THEN [i \in 1..Len(d) |-> IF d[i].id = rec.id THEN rec ELSE d[i]]
    ELSE Append(d, rec)

\* del d[key]
DictDel(d, key) == SelectSeq(d, LAMBDA r : r.id # key)

----------------------------------------------------------------------------
(* app/models.py                                                           *)

SubscriptionStatus == {"active", "cancelled", "paused", "pending_cancellation"}
BillStatus == {"pending", "negotiating", "completed", "failed"}
SubscriptionCategory ==
    {"streaming", "software", "utilities", "insurance", "telecom", "fitness",
     "news", "gaming", "other"}

UserUuids == <<"user-uuid-1", "user-uuid-2", "user-uuid-3", "user-uuid-4">>
SubUuids == <<"sub-uuid-1", "sub-uuid-2", "sub-uuid-3", "sub-uuid-4">>
NegUuids == <<"neg-uuid-1", "neg-uuid-2", "neg-uuid-3", "neg-uuid-4">>

\* User(**user_data.dict()): the defaults of the model class
User(id, email, name, currency) ==
    [id |-> id, email |-> email, name |-> name, currency |-> currency,
     plan |-> "free", stripe_customer_id |-> None,
     subscription_expires_at |-> None, total_monthly_spending |-> 0,
     total_savings |-> 0, ai_detections_used |-> 0, ai_detections_limit |-> 2,
     created_at |-> now]

\* Subscription(user_id=..., **subscription_data.dict())
Subscription(id, user_id, data) ==
    [id |-> id, user_id |-> user_id, name |-> data.name,
     company |-> data.company, amount |-> data.amount,
     currency |-> data.currency, billing_cycle |-> data.billing_cycle,
     next_billing_date |-> data.next_billing_date,
     category |-> data.category, status |-> "active", auto_detected |-> TRUE,
     last_used |-> None, created_at |-> now, updated_at |-> now]

\* BillNegotiation(user_id=..., **negotiation_data.dict())
BillNegotiation(id, user_id, data) ==
    [id |-> id, user_id |-> user_id, subscription_id |-> None,
     service_name |-> data.service_name,
     current_amount |-> data.current_amount,
     target_amount |-> data.target_amount, status |-> "pending",
     savings_potential |-> None, negotiation_notes |-> None,
     created_at |-> now, completed_at |-> None]

----------------------------------------------------------------------------
(* app/database.py                                                         *)

SampleSubscription(id, name, company, amount, next_billing, category, last_used) ==
    [id |-> id, user_id |-> "sample-user-123", name |-> name,
     company |-> company, amount |-> amount, currency |-> "USD",
     billing_cycle |-> "monthly", next_billing_date |-> next_billing,
     category |-> category, status |-> "active", auto_detected |-> TRUE,
     last_used |-> Some(last_used), created_at |-> 0, updated_at |-> 0]

sample_user ==
    [id |-> "sample-user-123", email |-> "demo@example.com",
     name |-> "Demo User", currency |-> "USD", plan |-> "free",
     stripe_customer_id |-> None, subscription_expires_at |-> None,
     total_monthly_spending |-> Dollars(156, 97),
     total_savings |-> Dollars(45, 50),
     ai_detections_used |-> 0, ai_detections_limit |-> 2, created_at |-> 0]

sample_subscriptions ==
    << SampleSubscription("sub-1", "Netflix Premium", "Netflix",
            Dollars(15, 99), days(15), "streaming", 0 - days(2)),
       SampleSubscription("sub-2", "Spotify Premium", "Spotify",
            Dollars(9, 99), days(8), "streaming", 0 - hours(3)),
       SampleSubscription("sub-3", "Adobe Creative Cloud", "Adobe",
            Dollars(52, 99), days(22), "software", 0 - days(45)),
       SampleSubscription("sub-4", "Gym Membership", "FitLife Gym",
            Dollars(29, 99), days(5), "fitness", 0 - days(30)),
       SampleSubscription("sub-5", "Disney+", "Disney",
            Dollars(7, 99), days(12), "streaming", 0 - days(60)) >>

\* InMemoryDatabase.__init__ and _initialize_sample_data
DbInit ==
    /\ users = <<sample_user>>
    /\ subscriptions = sample_subscriptions
    /\ bill_negotiations = <<>>
    /\ price_alerts = <<>>
    /\ uuids = [users |-> 0, subscriptions |-> 0, bill_negotiations |-> 0]

db_get_user(user_id) == DictGet(users, user_id)

db_get_user_by_email(email) ==
    LET hits == SelectSeq(users, LAMBDA u : u.email = email)
    IN  IF hits = <<>> THEN None ELSE Some(Head(hits))

db_create_user(user) == DictPut(users, user)

db_create_subscription(subscription) == DictPut(subscriptions, subscription)

db_get_subscription(subscription_id) == DictGet(subscriptions, subscription_id)

db_get_user_subscriptions(user_id) ==
    SelectSeq(subscriptions, LAMBDA sub : sub.user_id = user_id)

\* the for loop of update_subscription: setattr for every key the record has
SetAttrsNoHasattr(rec, updates) ==
    [f \in DOMAIN rec \cup DOMAIN updates |->
        IF f \in DOMAIN updates THEN updates[f] ELSE rec[f]]

SetAttrs(rec, updates) ==
    [f \in DOMAIN rec |-> IF f \in DOMAIN updates THEN updates[f] ELSE rec[f]]

\* update_subscription: the record it returns (None when absent) and the store
db_update_subscription(subscription_id, updates) ==
    IF subscription_id \in Keys(subscriptions)
    THEN LET subscription == Value(DictGet(subscriptions, subscription_id))
             updated == [SetAttrs(subscription, updates)
                            EXCEPT !.updated_at = now]
         IN  [ret |-> Some(updated), store |-> DictPut(subscriptions, updated)]
    ELSE [ret |-> None, store |-> subscriptions]

db_delete_subscription(subscription_id) ==
    IF subscription_id \in Keys(subscriptions)
    THEN [ret |-> TRUE, store |-> DictDel(subscriptions, subscription_id)]
    ELSE [ret |-> FALSE, store |-> subscriptions]

db_create_bill_negotiation(negotiation) ==
    DictPut(bill_negotiations, negotiation)

db_get_bill_negotiation(negotiation_id) ==
    DictGet(bill_negotiations, negotiation_id)

db_get_user_negotiations(user_id) ==
    SelectSeq(bill_negotiations, LAMBDA neg : neg.user_id = user_id)

db_update_bill_negotiation(negotiation_id, updates) ==
    IF negotiation_id \in Keys(bill_negotiations)
    THEN LET negotiation == Value(DictGet(bill_negotiations, negotiation_id))
             updated == SetAttrs(negotiation, updates)
         IN  [ret |-> Some(updated),
              store |-> DictPut(bill_negotiations, updated)]
    ELSE [ret |-> None, store |-> bill_negotiations]

db_get_user_price_alerts(user_id) ==
    SelectSeq(price_alerts, LAMBDA alert : alert.user_id = user_id)

\* acknowledge_price_alert answering True for every id
AcknowledgeAnyAlert(alert_id) == [ret |-> TRUE, store |-> price_alerts]

db_acknowledge_price_alert(alert_id) ==
    IF alert_id \in Keys(price_alerts)
    THEN [ret |-> TRUE,
          store |-> [i \in 1..Len(price_alerts) |->
                        IF price_alerts[i].id = alert_id
                        THEN [price_alerts[i] EXCEPT !.acknowledged = TRUE]
                        ELSE price_alerts[i]]]
    ELSE [ret |-> FALSE, store |-> price_alerts]

\* create_price_alert: no handler calls it
db_create_price_alert(alert) == DictPut(price_alerts, alert)

\* neg.savings_potential or 0
SavingsOrZero(neg) ==
    IF IsNone(neg.savings_potential) \/ Value(neg.savings_potential) = 0
    THEN 0
    ELSE Value(neg.savings_potential)

SavingsMonthsPerYear == 12

\* monthly_savings, database.py:168-169
MonthlySavingsStale(user_id, completed_negotiations, cancelled_subs) ==
    Value(db_get_user(user_id)).total_savings

MonthlySavings(user_id, completed_negotiations, cancelled_subs) ==
    SumSeq([i \in 1..Len(completed_negotiations) |->
                SavingsOrZero(completed_negotiations[i])])
        + SumSeq([i \in 1..Len(cancelled_subs) |-> cancelled_subs[i].amount])

\* yearly_savings, database.py:174
YearlySavingsOff(monthly_savings) == monthly_savings * 10

YearlySavings(monthly_savings) == monthly_savings * SavingsMonthsPerYear

\* active_subs, database.py:164
ActiveSubsNotCancelled(user_subscriptions) ==
    SelectSeq(user_subscriptions, LAMBDA sub : sub.status # "cancelled")

ActiveSubs(user_subscriptions) ==
    SelectSeq(user_subscriptions, LAMBDA sub : sub.status = "active")

db_get_user_savings_report(user_id) ==
    LET user_subscriptions == db_get_user_subscriptions(user_id)
        user_negotiations == db_get_user_negotiations(user_id)
        active_subs == ActiveSubs(user_subscriptions)
        cancelled_subs ==
            SelectSeq(user_subscriptions, LAMBDA sub : sub.status = "cancelled")
        completed_negotiations ==
            SelectSeq(user_negotiations, LAMBDA neg : neg.status = "completed")
        monthly_savings ==
            MonthlySavings(user_id, completed_negotiations, cancelled_subs)
    IN  [user_id |-> user_id,
         monthly_savings |-> monthly_savings,
         yearly_savings |-> YearlySavings(monthly_savings),
         cancelled_subscriptions |-> Len(cancelled_subs),
         negotiated_bills |-> Len(completed_negotiations),
         total_subscriptions |-> Len(user_subscriptions),
         active_subscriptions |-> Len(active_subs)]

----------------------------------------------------------------------------
(* app/main.py: the handlers.  Every handler leaves its answer in          *)
(* response: the status code and the body, with the request it answers.    *)

\* no handler is running
NoResponse == [op |-> "none", args |-> <<>>, status |-> 0, body |-> <<>>]

\* a value returned to a caller that is not an HTTP client
Returned(op, args, ret) ==
    [op |-> op, args |-> args, status |-> 0, body |-> ret]

Reply(op, args, body) ==
    [op |-> op, args |-> args, status |-> 200, body |-> body]

HTTPException(op, args, status_code, detail) ==
    [op |-> op, args |-> args, status |-> status_code, body |-> detail]

\* POST /api/users without the look-up of the email
CreateUserUnchecked(user_data) ==
    LET args == [email |-> user_data.email]
        user == User(UserUuids[uuids.users + 1], user_data.email,
                     user_data.name, user_data.currency)
    IN  /\ uuids.users < Len(UserUuids)
        /\ users' = db_create_user(user)
        /\ uuids' = [uuids EXCEPT !.users = @ + 1]
        /\ response' = Reply("create_user", args, user)
        /\ UNCHANGED <<subscriptions, bill_negotiations, price_alerts, now,
                       detector, stripe>>

\* POST /api/users
create_user(user_data) ==
    LET args == [email |-> user_data.email]
        existing_user == db_get_user_by_email(user_data.email)
    IN  IF ~IsNone(existing_user)
        THEN /\ response' = HTTPException("create_user", args, 400,
                                "User with this email already exists")
             /\ UNCHANGED <<store_vars, now, detector, stripe>>
        ELSE LET user == User(UserUuids[uuids.users + 1], user_data.email,
                              user_data.name, user_data.currency)
             IN  /\ users' = db_create_user(user)
                 /\ uuids' = [uuids EXCEPT !.users = @ + 1]
                 /\ response' = Reply("create_user", args, user)
                 /\ UNCHANGED <<subscriptions, bill_negotiations,
                                price_alerts, now, detector, stripe>>

\* POST /api/users/{user_id}/subscriptions without the look-up of the user
CreateSubscriptionUnchecked(user_id, subscription_data) ==
    LET args == [user_id |-> user_id]
        subscription ==
            Subscription(SubUuids[uuids.subscriptions + 1], user_id,
                         subscription_data)
    IN  /\ subscriptions' = db_create_subscription(subscription)
        /\ uuids' = [uuids EXCEPT !.subscriptions = @ + 1]
        /\ response' = Reply("create_subscription", args, subscription)
        /\ UNCHANGED <<users, bill_negotiations, price_alerts, now,
                       detector, stripe>>

\* POST /api/users/{user_id}/subscriptions
create_subscription(user_id, subscription_data) ==
    LET args == [user_id |-> user_id]
        user == db_get_user(user_id)
    IN  IF IsNone(user)
        THEN /\ response' = HTTPException("create_subscription", args, 404,
                                "User not found")
             /\ UNCHANGED <<store_vars, now, detector, stripe>>
        ELSE LET subscription ==
                    Subscription(SubUuids[uuids.subscriptions + 1], user_id,
                                 subscription_data)
             IN  /\ subscriptions' = db_create_subscription(subscription)
                 /\ uuids' = [uuids EXCEPT !.subscriptions = @ + 1]
                 /\ response' = Reply("create_subscription", args, subscription)
                 /\ UNCHANGED <<users, bill_negotiations, price_alerts, now,
                                detector, stripe>>

\* cancel and pause refusing a subscription that is not active
SetStatusActiveOnly(op, subscription_id, status, done, failed) ==
    LET args == [subscription_id |-> subscription_id]
        subscription == db_get_subscription(subscription_id)
    IN  IF IsNone(subscription) \/ Value(subscription).status # "active"
        THEN /\ response' = HTTPException(op, args, 404,
                                "Subscription not found")
             /\ UNCHANGED <<store_vars, now, detector, stripe>>
        ELSE LET r == db_update_subscription(subscription_id,
                                             [status |-> status])
             IN  /\ subscriptions' = r.store
                 /\ response' = Reply(op, args, [message |-> done,
                                        subscription |-> Value(r.ret)])
                 /\ UNCHANGED <<users, bill_negotiations, price_alerts,
                                uuids, now, detector, stripe>>

\* PUT /api/subscriptions/{subscription_id}/cancel and .../pause
SetStatus(op, subscription_id, status, done, failed) ==
    LET args == [subscription_id |-> subscription_id]
        subscription == db_get_subscription(subscription_id)
    IN  IF IsNone(subscription)
        THEN /\ response' = HTTPException(op, args, 404,
                                "Subscription not found")
             /\ UNCHANGED <<store_vars, now, detector, stripe>>
        ELSE LET r == db_update_subscription(subscription_id,
                                             [status |-> status])
             IN  /\ subscriptions' = r.store
                 /\ response' =
                        IF IsNone(r.ret)
                        THEN HTTPException(op, args, 500, failed)
                        ELSE Reply(op, args, [message |-> done,
                                              subscription |-> Value(r.ret)])
                 /\ UNCHANGED <<users, bill_negotiations, price_alerts,
                                uuids, now, detector, stripe>>

cancel_subscription(subscription_id) ==
    SetStatus("cancel_subscription", subscription_id, "cancelled",
              "Subscription cancelled successfully",
              "Failed to cancel subscription")

pause_subscription(subscription_id) ==
    SetStatus("pause_subscription", subscription_id, "paused",
              "Subscription paused successfully",
              "Failed to pause subscription")

\* DELETE /api/subscriptions/{subscription_id}
delete_subscription(subscription_id) ==
    LET args == [subscription_id |-> subscription_id]
        subscription == db_get_subscription(subscription_id)
    IN  IF IsNone(subscription)
        THEN /\ response' = HTTPException("delete_subscription", args, 404,
                                "Subscription not found")
             /\ UNCHANGED <<store_vars, now, detector, stripe>>
        ELSE LET r == db_delete_subscription(subscription_id)
             IN  /\ subscriptions' = r.store
                 /\ response' =
                        IF ~r.ret
                        THEN HTTPException("delete_subscription", args, 500,
                                           "Failed to delete subscription")
                        ELSE Reply("delete_subscription", args,
                                [message |-> "Subscription deleted successfully"])
                 /\ UNCHANGED <<users, bill_negotiations, price_alerts,
                                uuids, now, detector, stripe>>

\* negotiation.current_amount * 0.15, main.py:129
EstimatedSavings(current_amount) == (current_amount * 15) \div 100

\* POST /api/users/{user_id}/negotiations
create_bill_negotiation(user_id, negotiation_data) ==
    LET args == [user_id |-> user_id]
        user == db_get_user(user_id)
    IN  IF IsNone(user)
        THEN /\ response' = HTTPException("create_bill_negotiation", args,
                                404, "User not found")
             /\ UNCHANGED <<store_vars, now, detector, stripe>>
        ELSE LET created ==
                    BillNegotiation(NegUuids[uuids.bill_negotiations + 1],
                                    user_id, negotiation_data)
                 negotiation ==
                    [created EXCEPT !.savings_potential =
                        Some(EstimatedSavings(created.current_amount))]
             IN  /\ bill_negotiations' = db_create_bill_negotiation(negotiation)
                 /\ uuids' = [uuids EXCEPT !.bill_negotiations = @ + 1]
                 /\ response' = Reply("create_bill_negotiation", args,
                                      negotiation)
                 /\ UNCHANGED <<users, subscriptions, price_alerts, now,
                                detector, stripe>>

\* PUT /api/negotiations/{negotiation_id}/complete?actual_savings=
complete_negotiation(negotiation_id, actual_savings) ==
    LET args == [negotiation_id |-> negotiation_id,
                 actual_savings |-> actual_savings]
        negotiation == db_get_bill_negotiation(negotiation_id)
    IN  IF IsNone(negotiation)
        THEN /\ response' = HTTPException("complete_negotiation", args, 404,
                                "Negotiation not found")
             /\ UNCHANGED <<store_vars, now, detector, stripe>>
        ELSE LET updates == [status |-> "completed",
                             savings_potential |-> Some(actual_savings),
                             completed_at |-> Some(now)]
                 r == db_update_bill_negotiation(negotiation_id, updates)
             IN  /\ bill_negotiations' = r.store
                 /\ response' =
                        IF IsNone(r.ret)
                        THEN HTTPException("complete_negotiation", args, 500,
                                           "Failed to complete negotiation")
                        ELSE Reply("complete_negotiation", args,
                                [message |-> "Negotiation completed successfully",
                                 negotiation |-> Value(r.ret)])
                 /\ UNCHANGED <<users, subscriptions, price_alerts, uuids,
                                now, detector, stripe>>

\* GET /api/users/{user_id}/price-alerts
get_price_alerts(user_id) ==
    LET args == [user_id |-> user_id]
        user == db_get_user(user_id)
    IN  /\ response' =
            IF IsNone(user)
            THEN HTTPException("get_price_alerts", args, 404, "User not found")
            ELSE Reply("get_price_alerts", args,
                       db_get_user_price_alerts(user_id))
        /\ UNCHANGED <<store_vars, now, detector, stripe>>

\* PUT /api/price-alerts/{alert_id}/acknowledge
acknowledge_price_alert(alert_id) ==
    LET args == [alert_id |-> alert_id]
        success == db_acknowledge_price_alert(alert_id)
    IN  /\ price_alerts' = success.store
        /\ response' =
            IF ~success.ret
            THEN HTTPException("acknowledge_price_alert", args, 404,
                               "Price alert not found")
            ELSE Reply("acknowledge_price_alert", args,
                       [message |-> "Price alert acknowledged"])
        /\ UNCHANGED <<users, subscriptions, bill_negotiations, uuids, now,
                       detector, stripe>>

\* GET /api/users/{user_id}/savings-report
get_savings_report(user_id) ==
    LET args == [user_id |-> user_id]
        user == db_get_user(user_id)
    IN  /\ response' =
            IF IsNone(user)
            THEN HTTPException("get_savings_report", args, 404,
                               "User not found")
            ELSE Reply("get_savings_report", args,
                       db_get_user_savings_report(user_id))
        /\ UNCHANGED <<store_vars, now, detector, stripe>>

DefaultDaysUnused == 30

\* the test of main.py:169
IsUnusedNoStatus(sub, cutoff_date) ==
    /\ ~IsNone(sub.last_used)
    /\ Value(sub.last_used) < cutoff_date

IsUnused(sub, cutoff_date) ==
    /\ sub.status = "active"
    /\ ~IsNone(sub.last_used)
    /\ Value(sub.last_used) < cutoff_date

\* the list get_unused_subscriptions builds, main.py:164-172
UnusedSubscriptions(user_id, days_unused) ==
    LET subs == db_get_user_subscriptions(user_id)
        cutoff_date == now - days(days_unused)
    IN  SelectSeq(subs, LAMBDA sub : IsUnused(sub, cutoff_date))

\* GET /api/users/{user_id}/unused-subscriptions?days_unused=
get_unused_subscriptions(user_id, days_unused) ==
    LET args == [user_id |-> user_id, days_unused |-> days_unused]
        user == db_get_user(user_id)
    IN  /\ response' =
            IF IsNone(user)
            THEN HTTPException("get_unused_subscriptions", args, 404,
                               "User not found")
            ELSE Reply("get_unused_subscriptions", args,
                       UnusedSubscriptions(user_id, days_unused))
        /\ UNCHANGED <<store_vars, now, detector, stripe>>

InsightsStaleDays == 30
OptimizationPerUnused == 15
ProjectionMonthsPerYear == 12

\* sum(sub.amount for sub in subscriptions if sub.status == "active" and
\* sub.billing_cycle == cycle), main.py:266-267
CycleTotalAnyStatus(subs, cycle) ==
    LET hits == SelectSeq(subs, LAMBDA sub : sub.billing_cycle = cycle)
    IN  SumSeq([i \in 1..Len(hits) |-> hits[i].amount])

CycleTotal(subs, cycle) ==
    LET hits == SelectSeq(subs, LAMBDA sub :
                    sub.status = "active" /\ sub.billing_cycle = cycle)
    IN  SumSeq([i \in 1..Len(hits) |-> hits[i].amount])

\* the loop of main.py:269-275, over the subscriptions left to visit
RECURSIVE CategoryBreakdown(_, _)
CategoryBreakdown(subs, category_breakdown) ==
    IF subs = <<>> THEN category_breakdown
    ELSE LET sub == Head(subs)
             started ==
                IF sub.category \notin DOMAIN category_breakdown
                THEN category_breakdown
                        @@ (sub.category :> [count |-> 0, total |-> 0])
                ELSE category_breakdown
             counted ==
                [started EXCEPT ![sub.category] =
                    [count |-> @.count + 1, total |-> @.total + sub.amount]]
         IN  IF sub.status = "active"
             THEN CategoryBreakdown(Tail(subs), counted)
             ELSE CategoryBreakdown(Tail(subs), category_breakdown)

\* unused_count, main.py:277-278
InsightsUnusedCount(subs) ==
    Len(SelectSeq(subs, LAMBDA sub :
            /\ ~IsNone(sub.last_used)
            /\ timedelta_days(now - Value(sub.last_used)) > InsightsStaleDays))

\* the body get_subscription_insights returns, main.py:264-289
SubscriptionInsights(user_id) ==
    LET subs == db_get_user_subscriptions(user_id)
        total_monthly == CycleTotal(subs, "monthly")
        total_yearly == CycleTotal(subs, "yearly")
        unused_count == InsightsUnusedCount(subs)
    IN  [total_monthly_cost |-> total_monthly,
         total_yearly_cost |-> total_yearly,
         annual_projection |->
            (total_monthly * ProjectionMonthsPerYear) + total_yearly,
         category_breakdown |-> CategoryBreakdown(subs, <<>>),
         unused_subscriptions_count |-> unused_count,
         optimization_potential |-> unused_count * OptimizationPerUnused,
         active_subscriptions |->
            Len(SelectSeq(subs, LAMBDA sub : sub.status = "active")),
         total_subscriptions |-> Len(subs)]

\* GET /api/users/{user_id}/subscription-insights
get_subscription_insights(user_id) ==
    LET args == [user_id |-> user_id]
        user == db_get_user(user_id)
    IN  /\ response' =
            IF IsNone(user)
            THEN HTTPException("get_subscription_insights", args, 404,
                               "User not found")
            ELSE Reply("get_subscription_insights", args,
                       SubscriptionInsights(user_id))
        /\ UNCHANGED <<store_vars, now, detector, stripe>>

\* the clock moves on between two requests
TickStep == hours(12)

Tick ==
    /\ now + TickStep <= MaxTicks * TickStep
    /\ now' = now + TickStep
    /\ UNCHANGED <<store_vars, response, detector, stripe>>

----------------------------------------------------------------------------
(* app/claude_service.py                                                   *)
(*                                                                         *)
(* A JSON scalar is a record: its type, its number (in hundredths, so 0.8  *)
(* is 80 and 14.99 is 1499; True is 1 and False is 0, as Python compares   *)
(* them) and its string.  A JSON value is a dict (its fields), a list (its *)
(* items) or a bare number.  The text of a backend response is a sequence  *)
(* of tokens: brackets, commas, JSON values, and words that are no JSON.   *)

Num(n) == [t |-> "number", n |-> n, s |-> ""]
Str(s) == [t |-> "string", n |-> 0, s |-> s]
Bool(b) == [t |-> "bool", n |-> IF b THEN 100 ELSE 0, s |-> ""]
Null == [t |-> "null", n |-> 0, s |-> ""]

JDict(fields) == [kind |-> "dict", fields |-> fields, items |-> <<>>]
JList(items) == [kind |-> "list", fields |-> <<>>, items |-> items]
JNumber == [kind |-> "number", fields |-> <<>>, items |-> <<>>]

LB == [t |-> "[", v |-> JNumber]
RB == [t |-> "]", v |-> JNumber]
COMMA == [t |-> ",", v |-> JNumber]
WORD == [t |-> "word", v |-> JNumber]
Val(v) == [t |-> "value", v |-> v]

\* isinstance(v, (int, float)): bool is a subclass of int
IsIntOrFloat(v) == v.t \in {"number", "bool"}

required_fields ==
    {"name", "company", "amount", "billing_cycle", "category", "confidence"}
valid_categories ==
    {"streaming", "software", "utilities", "fitness", "insurance", "telecom",
     "news", "gaming", "other"}
valid_cycles == {"monthly", "yearly", "weekly"}

\* v in a list of strings
InStrings(v, strings) == v.t = "string" /\ v.s \in strings

\* _validate_subscription: what it returns, and sub as it leaves it
_validate_subscription(sub) ==
    IF sub.kind # "dict"
    THEN [ok |-> FALSE, sub |-> sub]
    ELSE IF \E field \in required_fields : field \notin DOMAIN sub.fields
    THEN [ok |-> FALSE, sub |-> sub]
    ELSE LET s1 == IF ~InStrings(sub.fields.category, valid_categories)
                   THEN [sub.fields EXCEPT !.category = Str("other")]
                   ELSE sub.fields
             s2 == IF ~InStrings(s1.billing_cycle, valid_cycles)
                   THEN [s1 EXCEPT !.billing_cycle = Str("monthly")]
                   ELSE s1
             s3 == IF \/ ~IsIntOrFloat(s2.confidence)
                      \/ ~(0 <= s2.confidence.n /\ s2.confidence.n <= 100)
                   THEN [s2 EXCEPT !.confidence = Num(80)]
                   ELSE s2
         IN  IF ~IsIntOrFloat(s2.amount) \/ s2.amount.n <= 0
             THEN [ok |-> FALSE, sub |-> JDict(s2)]
             ELSE [ok |-> TRUE, sub |-> JDict(s3)]

\* _get_mock_subscriptions
_get_mock_subscriptions ==
    << JDict([name |-> Str("Amazon Prime"), company |-> Str("Amazon"),
              amount |-> Num(1499), billing_cycle |-> Str("monthly"),
              category |-> Str("streaming"), confidence |-> Num(95)]),
       JDict([name |-> Str("Microsoft 365"), company |-> Str("Microsoft"),
              amount |-> Num(699), billing_cycle |-> Str("monthly"),
              category |-> Str("software"), confidence |-> Num(88)]) >>

\* re.search(r'\[.*\]', content, re.DOTALL): from the first "[" to the last
\* "]" after it, or no match
re_search(content) ==
    LET opens == {i \in 1..Len(content) : content[i] = LB}
        closes == {i \in 1..Len(content) : content[i] = RB}
    IN  IF opens = {} \/ closes = {} THEN None
        ELSE LET first == CHOOSE i \in opens : \A j \in opens : i <= j
                 last == CHOOSE i \in closes : \A j \in closes : j <= i
             IN  IF first < last THEN Some(SubSeq(content, first, last))
                 ELSE None

JSONDecodeError == [ok |-> FALSE, val |-> JNumber, next |-> 0]

\* json.loads, by recursive descent: a value starting at pos, and the
\* elements of a list after its "["
RECURSIVE ParseValue(_, _)
RECURSIVE ParseElements(_, _, _)
ParseValue(toks, pos) ==
    IF pos > Len(toks) THEN JSONDecodeError
    ELSE IF toks[pos].t = "value"
    THEN [ok |-> TRUE, val |-> toks[pos].v, next |-> pos + 1]
    ELSE IF toks[pos].t = "["
    THEN IF pos + 1 <= Len(toks) /\ toks[pos + 1].t = "]"
         THEN [ok |-> TRUE, val |-> JList(<<>>), next |-> pos + 2]
         ELSE ParseElements(toks, pos + 1, <<>>)
    ELSE JSONDecodeError

ParseElements(toks, pos, items) ==
    LET element == ParseValue(toks, pos)
    IN  IF ~element.ok \/ element.next > Len(toks) THEN JSONDecodeError
        ELSE IF toks[element.next].t = ","
        THEN ParseElements(toks, element.next + 1, Append(items, element.val))
        ELSE IF toks[element.next].t = "]"
        THEN [ok |-> TRUE, val |-> JList(Append(items, element.val)),
              next |-> element.next + 1]
        ELSE JSONDecodeError

json_loads(json_str) ==
    LET parsed == ParseValue(json_str, 1)
    IN  IF parsed.ok /\ parsed.next = Len(json_str) + 1 THEN parsed
        ELSE JSONDecodeError

\* the loop of _parse_claude_response losing the first candidate it accepts
ValidatedButFirst(subs) ==
    LET accepted ==
            SelectSeq(subs, LAMBDA sub : _validate_subscription(sub).ok)
    IN  IF accepted = <<>> THEN <<>>
        ELSE [i \in 1..(Len(accepted) - 1) |->
                _validate_subscription(accepted[i + 1]).sub]

\* the loop of _parse_claude_response, claude_service.py:73-76
RECURSIVE ValidatedSubscriptions(_)
ValidatedSubscriptions(subs) ==
    IF subs = <<>> THEN <<>>
    ELSE LET checked == _validate_subscription(Head(subs))
         IN  IF checked.ok
             THEN <<checked.sub>> \o ValidatedSubscriptions(Tail(subs))
             ELSE ValidatedSubscriptions(Tail(subs))

\* _parse_claude_response with an except clause that returns an empty list
ParseNoFallback(content) ==
    LET json_match == re_search(content)
    IN  IF ~IsNone(json_match)
        THEN LET subs == json_loads(Value(json_match))
             IN  IF subs.ok THEN ValidatedSubscriptions(subs.val.items)
                 ELSE <<>>
        ELSE _get_mock_subscriptions

\* _parse_claude_response
_parse_claude_response(content) ==
    LET json_match == re_search(content)
    IN  IF ~IsNone(json_match)
        THEN LET subs == json_loads(Value(json_match))
             IN  IF subs.ok THEN ValidatedSubscriptions(subs.val.items)
                 ELSE _get_mock_subscriptions
        ELSE _get_mock_subscriptions

\* ClaudeSubscriptionDetector.__init__: client is None without CLAUDE_API_KEY
Detector(client) ==
    [client |-> client, pc |-> "idle", calls |-> 0, outcome |-> "none",
     content |-> <<>>, result |-> <<>>]

\* analyze_bank_statement, up to its await: without a client it returns the
\* mock list, with one it calls the backend
analyze_bank_statement ==
    /\ detector.pc = "idle"
    /\ IF ~detector.client
       THEN /\ detector' = [detector EXCEPT !.pc = "returned",
                                !.result = _get_mock_subscriptions]
            /\ response' = Returned("analyze_bank_statement", <<>>,
                                    _get_mock_subscriptions)
       ELSE /\ detector' = [detector EXCEPT !.pc = "awaiting",
                                !.calls = @ + 1]
            /\ UNCHANGED response
    /\ UNCHANGED <<store_vars, now, stripe>>

\* the backend call raises: except Exception, claude_service.py:61-63
BackendRaises ==
    /\ detector.pc = "awaiting"
    /\ detector' = [detector EXCEPT !.pc = "returned", !.outcome = "raised",
                        !.result = _get_mock_subscriptions]
    /\ response' = Returned("analyze_bank_statement", <<>>,
                            _get_mock_subscriptions)
    /\ UNCHANGED <<store_vars, now, stripe>>

\* the backend call answers with a text: claude_service.py:58-59
BackendResponds(content) ==
    /\ detector.pc = "awaiting"
    /\ LET result == _parse_claude_response(content)
       IN  /\ detector' = [detector EXCEPT !.pc = "returned",
                                !.outcome = "responded",
                                !.content = content, !.result = result]
           /\ response' = Returned("analyze_bank_statement", <<>>, result)
    /\ UNCHANGED <<store_vars, now, stripe>>

\* the caller takes the list; the detector is ready for the next call
DetectorReturn ==
    /\ detector.pc = "returned"
    /\ detector' = Detector(detector.client)
    /\ response' = NoResponse
    /\ UNCHANGED <<store_vars, now, stripe>>

----------------------------------------------------------------------------
(* app/stripe_service.py                                                   *)
(*                                                                         *)
(* A method of StripeService does not await: it runs to its end in one     *)
(* step.  Whether the processor answers or raises is the processor's       *)
(* choice.  Prices are in hundredths of the currency unit.                 *)

UserPlan == {"free", "premium"}

\* self.plan_prices, stripe_service.py:20-30
plan_prices ==
    [premium |-> [USD |-> 999, EUR |-> 849, GBP |-> 799, INR |-> 79900,
                  AUD |-> 1499, CAD |-> 1299, JPY |-> 149900]]

\* str.lower on the currency codes
lower(currency) ==
    CASE currency = "USD" -> "usd" [] currency = "EUR" -> "eur"
      [] currency = "GBP" -> "gbp" [] currency = "INR" -> "inr"
      [] currency = "AUD" -> "aud" [] currency = "CAD" -> "cad"
      [] currency = "JPY" -> "jpy" [] OTHER -> currency

\* StripeService.__init__: enabled only with STRIPE_SECRET_KEY; calls counts
\* the requests of the running method to the processor, sent is the last one
StripeService(enabled) ==
    [enabled |-> enabled, pc |-> "idle", calls |-> 0, raised |-> FALSE,
     sent |-> <<>>]

\* the method's request to the processor, and the processor's outcome
Processor(request, raises) ==
    [stripe EXCEPT !.pc = "returned", !.calls = @ + 1, !.raised = raises,
                   !.sent = request]

\* the method ends without a request to the processor
NoProcessor == [stripe EXCEPT !.pc = "returned"]

\* create_customer
create_customer(email, name) ==
    LET args == [email |-> email, name |-> name]
    IN  /\ stripe.pc = "idle"
        /\ IF ~stripe.enabled
           THEN /\ stripe' = NoProcessor
                /\ response' = Returned("create_customer", args, None)
           ELSE \E raises \in BOOLEAN :
                /\ stripe' = Processor([email |-> email, name |-> name],
                                       raises)
                /\ response' = Returned("create_customer", args,
                                    IF raises THEN None ELSE Some("cus_1"))
        /\ UNCHANGED <<store_vars, now, detector>>

\* stripe_amount, stripe_service.py:54-57
stripe_amount(amount, currency) ==
    IF currency # "JPY" THEN amount ELSE amount \div 100

\* intent_data, stripe_service.py:59-69
intent_data(user_id, payment_data, customer_id, amount) ==
    LET data == [amount |-> stripe_amount(amount, payment_data.currency),
                 currency |-> lower(payment_data.currency),
                 metadata |-> [user_id |-> user_id,
                               plan |-> payment_data.plan]]
    IN  IF ~IsNone(customer_id) /\ Value(customer_id) # ""
        THEN data @@ ("customer" :> Value(customer_id))
        ELSE data

\* create_payment_intent
create_payment_intent(user_id, payment_data, customer_id) ==
    LET args == [user_id |-> user_id, payment_data |-> payment_data,
                 customer_id |-> customer_id]
        failed == HTTPException("create_payment_intent", args, 500,
                                "Failed to create payment intent")
    IN  /\ stripe.pc = "idle"
        /\ IF ~stripe.enabled
           THEN /\ stripe' = NoProcessor
                /\ response' =
                        HTTPException("create_payment_intent", args, 503,
                            "Payment processing is currently unavailable")
           ELSE IF \/ payment_data.plan \notin DOMAIN plan_prices
                   \/ payment_data.currency
                        \notin DOMAIN plan_prices[payment_data.plan]
           THEN /\ stripe' = NoProcessor
                /\ response' = failed
           ELSE LET amount ==
                        plan_prices[payment_data.plan][payment_data.currency]
                IN  \E raises \in BOOLEAN :
                    /\ stripe' = Processor(intent_data(user_id, payment_data,
                                               customer_id, amount), raises)
                    /\ response' =
                            IF raises THEN failed
                            ELSE Returned("create_payment_intent", args,
                                    [client_secret |-> "pi_1_secret",
                                     payment_intent_id |-> "pi_1",
                                     amount |-> amount,
                                     currency |-> payment_data.currency])
        /\ UNCHANGED <<store_vars, now, detector>>

\* the statuses the processor reports for an intent
IntentStatus == {"succeeded", "requires_payment_method"}

\* confirm_payment without its test of self.enabled
ConfirmPaymentNoCheck(payment_intent_id) ==
    LET args == [payment_intent_id |-> payment_intent_id]
    IN  /\ stripe.pc = "idle"
        /\ \/ /\ stripe' = Processor(args, TRUE)
              /\ response' = HTTPException("confirm_payment", args, 500,
                                   "Failed to confirm payment")
           \/ \E status \in IntentStatus :
              /\ stripe' = Processor(args, FALSE)
              /\ response' = Returned("confirm_payment", args,
                       [status |-> status, amount |-> 999,
                        currency |-> "usd",
                        metadata |-> [plan |-> "premium"]])
        /\ UNCHANGED <<store_vars, now, detector>>

\* confirm_payment
confirm_payment(payment_intent_id) ==
    LET args == [payment_intent_id |-> payment_intent_id]
    IN  /\ stripe.pc = "idle"
        /\ IF ~stripe.enabled
           THEN /\ stripe' = NoProcessor
                /\ response' = Returned("confirm_payment", args,
                                        [status |-> "disabled"])
           ELSE \/ /\ stripe' = Processor(args, TRUE)
                   /\ response' = HTTPException("confirm_payment", args, 500,
                                        "Failed to confirm payment")
                \/ \E status \in IntentStatus :
                   /\ stripe' = Processor(args, FALSE)
                   /\ response' = Returned("confirm_payment", args,
                            [status |-> status, amount |-> 999,
                             currency |-> "usd",
                             metadata |-> [plan |-> "premium"]])
        /\ UNCHANGED <<store_vars, now, detector>>

\* the caller takes the answer; the adapter is ready for the next call
StripeReturn ==
    /\ stripe.pc = "returned"
    /\ stripe' = StripeService(stripe.enabled)
    /\ response' = NoResponse
    /\ UNCHANGED <<store_vars, now, detector>>

----------------------------------------------------------------------------
(* The state after construction, and the requests of each specification.   *)

\* the process as it starts with no CLAUDE_API_KEY in its environment
Init ==
    /\ DbInit
    /\ now = 0
    /\ response = NoResponse
    /\ detector = Detector(FALSE)
    /\ stripe = StripeService(FALSE)

\* ids a request may name: every id in the store, and one that is not there
UserIds == Keys(users) \cup {"no-such-user"}
SubscriptionIds == Keys(subscriptions) \cup {"no-such-subscription"}
NegotiationIds == Keys(bill_negotiations) \cup {"no-such-negotiation"}

UserCreate(email) == [email |-> email, name |-> "Fresh User", currency |-> "USD"]

SubscriptionCreate(amount, billing_cycle, category) ==
    [name |-> "Service", company |-> "Company", amount |-> amount,
     currency |-> "USD", billing_cycle |-> billing_cycle,
     next_billing_date |-> days(30), category |-> category]

BillNegotiationCreate(current_amount) ==
    [service_name |-> "Internet", current_amount |-> current_amount,
     target_amount |-> None]

Emails == {"demo@example.com", "fresh@example.com"}

\* The event loop runs one handler at a time, to its end: a request is taken
\* up when no response is waiting, and Return hands the response to the caller.
Idle == response = NoResponse

Return ==
    /\ response # NoResponse
    /\ response' = NoResponse
    /\ UNCHANGED <<store_vars, now, detector, stripe>>

\* Savings: the requests that change what the savings report reads.  They
\* create subscriptions for the users created since construction, and cancel,
\* pause and delete those and one seeded subscription.
SavingsTargets ==
    (SubscriptionIds \ Keys(sample_subscriptions)) \cup {"sub-1"}

SavingsCreateUser ==
    Idle /\ \E email \in Emails : create_user(UserCreate(email))

SavingsCreateSubscription ==
    /\ Idle
    /\ uuids.subscriptions < MaxNewSubs
    /\ \E u \in UserIds \ {sample_user.id},
                amount \in {Dollars(15, 99), Dollars(9, 99)} :
                create_subscription(u,
                    SubscriptionCreate(amount, "monthly", "streaming"))

SavingsCancel == Idle /\ \E id \in SavingsTargets : cancel_subscription(id)

SavingsPause == Idle /\ \E id \in SavingsTargets : pause_subscription(id)

SavingsDelete == Idle /\ \E id \in SavingsTargets : delete_subscription(id)

SavingsCreateNegotiation ==
    /\ Idle
    /\ uuids.bill_negotiations < MaxNewNegs
    /\ \E u \in UserIds :
                create_bill_negotiation(u, BillNegotiationCreate(Dollars(80, 0)))

SavingsComplete ==
    Idle /\ \E id \in NegotiationIds, actual \in {Dollars(10, 0)} :
                complete_negotiation(id, actual)

SavingsReport == Idle /\ \E u \in UserIds : get_savings_report(u)

SavingsNext ==
    \/ SavingsCreateUser
    \/ SavingsCreateSubscription
    \/ SavingsCancel
    \/ SavingsPause
    \/ SavingsDelete
    \/ SavingsCreateNegotiation
    \/ SavingsComplete
    \/ SavingsReport
    \/ Return

SpecSavings == Init /\ [][SavingsNext]_vars

\* Insights: the clock, new subscriptions of every billing cycle for the
\* seeded user, and status changes of two seeded subscriptions: the one last
\* used 45 days before construction and the one last used 30 days before.
InsightsTargets == {"sub-3", "sub-4", "no-such-subscription"}

InsightsCreateSubscription ==
    /\ Idle
    /\ uuids.subscriptions < MaxInsightSubs
    /\ \E data \in {SubscriptionCreate(Dollars(120, 0), "yearly", "news"),
                     SubscriptionCreate(Dollars(3, 50), "weekly", "streaming"),
                     SubscriptionCreate(Dollars(6, 0), "monthly", "news")} :
            create_subscription(sample_user.id, data)

InsightsCancel == Idle /\ \E id \in InsightsTargets : cancel_subscription(id)

InsightsPause == Idle /\ \E id \in InsightsTargets : pause_subscription(id)

InsightsDelete == Idle /\ \E id \in InsightsTargets : delete_subscription(id)

InsightsUnused ==
    Idle /\ \E u \in UserIds, d \in {DefaultDaysUnused, 2, 45} :
                get_unused_subscriptions(u, d)

InsightsGet == Idle /\ \E u \in UserIds : get_subscription_insights(u)

InsightsTick == Idle /\ Tick

InsightsNext ==
    \/ InsightsCreateSubscription
    \/ InsightsCancel
    \/ InsightsPause
    \/ InsightsDelete
    \/ InsightsUnused
    \/ InsightsGet
    \/ InsightsTick
    \/ Return

SpecInsights == Init /\ [][InsightsNext]_vars

\* Store: update_subscription called directly, with partial updates that
\* name known attributes, unknown ones, both or none.
PartialUpdates ==
    << [status |-> "cancelled"],
       [amount |-> Dollars(5, 0), name |-> "Renamed"],
       [nickname |-> "mine"],
       [status |-> "paused", nickname |-> "mine"],
       [last_used |-> None, updated_at |-> 0 - days(1)],
       <<>> >>

StoreTargets == {"sub-1", "sub-2", "no-such-subscription"}

StoreUpdateSubscription ==
    /\ Idle
    /\ \E id \in StoreTargets, k \in 1..Len(PartialUpdates) :
            LET r == db_update_subscription(id, PartialUpdates[k])
            IN  /\ subscriptions' = r.store
                /\ response' = Returned("update_subscription",
                        [subscription_id |-> id, updates |-> k], r.ret)
    /\ UNCHANGED <<users, bill_negotiations, price_alerts, uuids, now,
                   detector, stripe>>

StoreTick == Idle /\ Tick

StoreNext ==
    \/ StoreUpdateSubscription
    \/ StoreTick
    \/ Return

SpecStore == Init /\ [][StoreNext]_vars

\* Detector: calls of analyze_bank_statement, with and without a client, the
\* backend raising or answering one of Contents.
Candidate ==
    [name |-> Str("Netflix"), company |-> Str("Netflix Inc"),
     amount |-> Num(1599), billing_cycle |-> Str("monthly"),
     category |-> Str("streaming"), confidence |-> Num(95)]

Without(fields, field) == [f \in DOMAIN fields \ {field} |-> fields[f]]

Candidates ==
    {JDict(Candidate), JNumber,
     JDict(Candidate @@ ("notes" :> Str("annual plan available")))}
    \cup {JDict(Without(Candidate, field)) : field \in required_fields}
    \cup {JDict([Candidate EXCEPT !.amount = v]) :
            v \in {Num(0), Num(0 - 500), Str("15.99"), Bool(TRUE),
                   Bool(FALSE), Null}}
    \cup {JDict([Candidate EXCEPT !.billing_cycle = v]) :
            v \in {Str("yearly"), Str("weekly"), Str("daily"), Null}}
    \cup {JDict([Candidate EXCEPT !.category = v]) :
            v \in {Str("other"), Str("music"), Num(300)}}
    \cup {JDict([Candidate EXCEPT !.confidence = v]) :
            v \in {Num(0), Num(100), Num(150), Num(0 - 10), Str("high"),
                   Bool(TRUE), Null}}
    \cup {JDict([Candidate EXCEPT !.category = Str("music"),
                    !.billing_cycle = Str("daily"), !.confidence = Num(150)]),
          JDict([Candidate EXCEPT !.category = Str("music"),
                    !.amount = Num(0)])}

\* json.dumps of a list of values
JsonText(values) ==
    IF values = <<>> THEN <<LB, RB>>
    ELSE [k \in 1..(2 * Len(values) + 1) |->
            IF k = 1 THEN LB
            ELSE IF k = 2 * Len(values) + 1 THEN RB
            ELSE IF k % 2 = 1 THEN COMMA
            ELSE Val(values[k \div 2])]

\* the candidates of the lists of two or more
ListCandidates ==
    {JDict(Candidate), JNumber,
     JDict([Candidate EXCEPT !.name = Str("Spotify"), !.amount = Num(999)]),
     JDict(Without(Candidate, "company")),
     JDict([Candidate EXCEPT !.amount = Num(0)]),
     JDict([Candidate EXCEPT !.amount = Bool(TRUE)]),
     JDict([Candidate EXCEPT !.category = Str("music")]),
     JDict([Candidate EXCEPT !.confidence = Bool(TRUE)])}

CandidateLists ==
    {<<>>} \cup {<<sub>> : sub \in Candidates}
    \cup UNION {[1..n -> ListCandidates] : n \in 2..MaxCandidates}

Contents ==
    UNION {[1..n -> {LB, RB, COMMA, WORD, Val(JDict(Candidate))}] :
            n \in 0..MaxTokens}
    \cup {JsonText(values) : values \in CandidateLists}
    \cup {<<WORD>> \o JsonText(values) \o <<WORD>> : values \in CandidateLists}

DetectorInit ==
    /\ DbInit
    /\ now = 0
    /\ response = NoResponse
    /\ detector \in {Detector(client) : client \in BOOLEAN}
    /\ stripe = StripeService(FALSE)

DetectorAnalyze == Idle /\ analyze_bank_statement

DetectorBackendResponds == \E content \in Contents : BackendResponds(content)

DetectorNext ==
    \/ DetectorAnalyze
    \/ BackendRaises
    \/ DetectorBackendResponds
    \/ DetectorReturn

SpecDetector == DetectorInit /\ [][DetectorNext]_vars

\* Stripe: calls of the three methods of the payment adapter, with and
\* without STRIPE_SECRET_KEY.
PaymentCreate(plan, currency) == [plan |-> plan, currency |-> currency]

StripeInit ==
    /\ DbInit
    /\ now = 0
    /\ response = NoResponse
    /\ detector = Detector(FALSE)
    /\ stripe \in {StripeService(enabled) : enabled \in BOOLEAN}

StripeCreateCustomer ==
    Idle /\ \E email \in Emails : create_customer(email, "Fresh User")

StripeCreatePaymentIntent ==
    Idle /\ \E user_id \in {sample_user.id, "no-such-user"},
               plan \in UserPlan, currency \in {"USD", "EUR", "JPY", "CHF"},
               customer_id \in {None, Some(""), Some("cus_1")} :
                create_payment_intent(user_id,
                    PaymentCreate(plan, currency), customer_id)

StripeConfirmPayment ==
    Idle /\ \E id \in {"pi_1", "pi_unknown"} : confirm_payment(id)

StripeNext ==
    \/ StripeCreateCustomer
    \/ StripeCreatePaymentIntent
    \/ StripeConfirmPayment
    \/ StripeReturn

SpecStripe == StripeInit /\ [][StripeNext]_vars

\* Adapters: calls of the detector and of the payment adapter, one call at
\* a time, each adapter with and without its key.
AdaptersInit ==
    /\ DbInit
    /\ now = 0
    /\ response = NoResponse
    /\ detector \in {Detector(client) : client \in BOOLEAN}
    /\ stripe \in {StripeService(enabled) : enabled \in BOOLEAN}

AdaptersAnalyze == stripe.pc = "idle" /\ DetectorAnalyze

AdaptersBackendResponds ==
    \E values \in CandidateLists : BackendResponds(JsonText(values))

AdaptersCreateCustomer == detector.pc = "idle" /\ StripeCreateCustomer

AdaptersCreatePaymentIntent ==
    detector.pc = "idle" /\ StripeCreatePaymentIntent

AdaptersConfirmPayment == detector.pc = "idle" /\ StripeConfirmPayment

AdaptersNext ==
    \/ AdaptersAnalyze
    \/ BackendRaises
    \/ AdaptersBackendResponds
    \/ DetectorReturn
    \/ AdaptersCreateCustomer
    \/ AdaptersCreatePaymentIntent
    \/ AdaptersConfirmPayment
    \/ StripeReturn

SpecAdapters == AdaptersInit /\ [][AdaptersNext]_vars

\* Negotiation: the two requests on bill negotiations, for stored and unknown
\* ids, and the clock.
NegotiationCreate ==
    /\ Idle
    /\ uuids.bill_negotiations < MaxNewNegs
    /\ \E u \in UserIds, amount \in {Dollars(80, 0), Dollars(33, 33)} :
            create_bill_negotiation(u, BillNegotiationCreate(amount))

NegotiationComplete ==
    Idle /\ \E id \in NegotiationIds,
               actual \in {0, Dollars(10, 0), Dollars(20, 0)} :
                complete_negotiation(id, actual)

NegotiationTick == Idle /\ Tick

NegotiationNext ==
    \/ NegotiationCreate
    \/ NegotiationComplete
    \/ NegotiationTick
    \/ Return

SpecNegotiation == Init /\ [][NegotiationNext]_vars

\* Alerts: the two price-alert requests among the requests that change the
\* store.
AlertIds == Keys(price_alerts) \cup {"no-such-alert", "sub-1"}

AlertsList == Idle /\ \E u \in UserIds : get_price_alerts(u)

AlertsAcknowledge == Idle /\ \E id \in AlertIds : acknowledge_price_alert(id)

AlertsNext ==
    \/ SavingsCreateUser
    \/ SavingsCreateSubscription
    \/ SavingsCancel
    \/ SavingsPause
    \/ SavingsDelete
    \/ SavingsCreateNegotiation
    \/ SavingsComplete
    \/ AlertsList
    \/ AlertsAcknowledge
    \/ Return

SpecAlerts == Init /\ [][AlertsNext]_vars

----------------------------------------------------------------------------
(* The savings report (C1, C2, C3), under SpecSavings.                     *)

SubsOf(u) == {i \in 1..Len(subscriptions) : subscriptions[i].user_id = u}
NegsOf(u) ==
    {i \in 1..Len(bill_negotiations) : bill_negotiations[i].user_id = u}
SubsWith(u, status) == {i \in SubsOf(u) : subscriptions[i].status = status}
CompletedNegsOf(u) ==
    {i \in NegsOf(u) : bill_negotiations[i].status = "completed"}

SavingsPotentialAt(i) ==
    IF IsNone(bill_negotiations[i].savings_potential) THEN 0
    ELSE Value(bill_negotiations[i].savings_potential)

RECURSIVE SumSavingsPotential(_)
SumSavingsPotential(S) ==
    IF S = {} THEN 0
    ELSE LET i == CHOOSE j \in S : TRUE
         IN  SavingsPotentialAt(i) + SumSavingsPotential(S \ {i})

RECURSIVE SumAmount(_)
SumAmount(S) ==
    IF S = {} THEN 0
    ELSE LET i == CHOOSE j \in S : TRUE
         IN  subscriptions[i].amount + SumAmount(S \ {i})

IsSavingsReport ==
    response.op = "get_savings_report" /\ response.status = 200

\* C1: a savings report's monthly_savings is the sum of savings_potential over
\* the user's completed negotiations plus the sum of amount over the user's
\* cancelled subscriptions, as the store holds them when the report is made.
C1_MonthlySavings ==
    IsSavingsReport =>
        LET u == response.args.user_id
        IN  response.body.monthly_savings =
                SumSavingsPotential(CompletedNegsOf(u))
                    + SumAmount(SubsWith(u, "cancelled"))

\* a report that adds a completed negotiation to a cancelled subscription
C1_Witness ==
    /\ IsSavingsReport
    /\ response.body.negotiated_bills = 1
    /\ response.body.cancelled_subscriptions = 1
    /\ response.body.monthly_savings = Dollars(15, 99) + Dollars(10, 0)

\* C2: in every savings report yearly_savings is monthly_savings times 12.
C2_YearlySavings ==
    IsSavingsReport =>
        response.body.yearly_savings = response.body.monthly_savings * 12

C2_Witness ==
    /\ IsSavingsReport
    /\ response.body.monthly_savings = Dollars(15, 99)
    /\ response.body.yearly_savings = Dollars(191, 88)

\* the end-to-end case of C3: the user's subscriptions are a cancelled one of
\* 15.99 and an active one of 9.99, both monthly, and no negotiation of the
\* user is completed
TwoSubscriptionsOneCancelled(u) ==
    /\ u # sample_user.id
    /\ CompletedNegsOf(u) = {}
    /\ \E i, j \in SubsOf(u) :
            /\ SubsOf(u) = {i, j}
            /\ i # j
            /\ subscriptions[i].amount = Dollars(15, 99)
            /\ subscriptions[i].status = "cancelled"
            /\ subscriptions[i].billing_cycle = "monthly"
            /\ subscriptions[j].amount = Dollars(9, 99)
            /\ subscriptions[j].status = "active"
            /\ subscriptions[j].billing_cycle = "monthly"

\* C3: the counts of a savings report are those of the store: the user's
\* subscriptions, the active ones, the cancelled ones, and the completed
\* negotiations.  For a fresh user with two monthly subscriptions, 15.99 and
\* 9.99, of which the 15.99 one was cancelled, the report has monthly_savings
\* 15.99, one active subscription and two subscriptions in all.
C3_ReportCounts ==
    IsSavingsReport =>
        LET u == response.args.user_id
            r == response.body
        IN  /\ r.total_subscriptions = Cardinality(SubsOf(u))
            /\ r.active_subscriptions = Cardinality(SubsWith(u, "active"))
            /\ r.cancelled_subscriptions = Cardinality(SubsWith(u, "cancelled"))
            /\ r.negotiated_bills = Cardinality(CompletedNegsOf(u))
            /\ TwoSubscriptionsOneCancelled(u) =>
                    /\ r.monthly_savings = Dollars(15, 99)
                    /\ r.active_subscriptions = 1
                    /\ r.total_subscriptions = 2

C3_Witness ==
    /\ IsSavingsReport
    /\ TwoSubscriptionsOneCancelled(response.args.user_id)

----------------------------------------------------------------------------
(* Unused subscriptions and insights (C4, C5, C6), under SpecInsights.     *)

IsUnusedReply ==
    response.op = "get_unused_subscriptions" /\ response.status = 200

IsInsightsReply ==
    response.op = "get_subscription_insights" /\ response.status = 200

ReturnedIds == {response.body[i].id : i \in 1..Len(response.body)}

LastUsedAgo(i, d) ==
    /\ ~IsNone(subscriptions[i].last_used)
    /\ Value(subscriptions[i].last_used) = now - days(d)

\* C4: the unused-subscriptions query with threshold d answers exactly the
\* user's subscriptions that are active, have a last_used, and were last used
\* strictly before now minus d days; none without last_used and none that is
\* not active; with d = 30 an active one last used 45 days ago is in the
\* answer and one last used 2 days ago is not.
C4_UnusedQuery ==
    IsUnusedReply =>
        LET u == response.args.user_id
            d == response.args.days_unused
            stale == {i \in SubsOf(u) :
                        /\ subscriptions[i].status = "active"
                        /\ ~IsNone(subscriptions[i].last_used)
                        /\ Value(subscriptions[i].last_used) < now - days(d)}
        IN  /\ ReturnedIds = {subscriptions[i].id : i \in stale}
            /\ Len(response.body) = Cardinality(stale)
            /\ \A k \in 1..Len(response.body) :
                    \E i \in stale : response.body[k] = subscriptions[i]
            /\ \A i \in SubsOf(u) :
                    /\ IsNone(subscriptions[i].last_used) =>
                            subscriptions[i].id \notin ReturnedIds
                    /\ subscriptions[i].status # "active" =>
                            subscriptions[i].id \notin ReturnedIds
                    /\ (d = 30 /\ LastUsedAgo(i, 45)
                            /\ subscriptions[i].status = "active") =>
                            subscriptions[i].id \in ReturnedIds
                    /\ (d = 30 /\ LastUsedAgo(i, 2)) =>
                            subscriptions[i].id \notin ReturnedIds

\* the default threshold, with an active subscription last used 45 days ago,
\* one last used 2 days ago, one never used and one that is not active
C4_Witness ==
    /\ IsUnusedReply
    /\ response.args.days_unused = DefaultDaysUnused
    /\ \E i, j, k, l \in SubsOf(response.args.user_id) :
            /\ LastUsedAgo(i, 45)
            /\ subscriptions[i].id \in ReturnedIds
            /\ LastUsedAgo(j, 2)
            /\ subscriptions[j].status = "active"
            /\ IsNone(subscriptions[k].last_used)
            /\ subscriptions[k].status = "active"
            /\ subscriptions[l].status \in {"cancelled", "paused"}

\* C5: in the insights, unused_subscriptions_count is the number of
\* subscriptions the unused-subscriptions query returns for days_unused = 30,
\* and optimization_potential is that number times 15.
C5_InsightsUnusedAsQuery ==
    IsInsightsReply =>
        LET unused == UnusedSubscriptions(response.args.user_id, 30)
        IN  /\ response.body.unused_subscriptions_count = Len(unused)
            /\ response.body.optimization_potential = Len(unused) * 15

ActiveOf(u) == SubsWith(u, "active")

RECURSIVE SumCounts(_, _)
SumCounts(breakdown, categories) ==
    IF categories = {} THEN 0
    ELSE LET c == CHOOSE x \in categories : TRUE
         IN  breakdown[c].count + SumCounts(breakdown, categories \ {c})

\* C6: in the insights, annual_projection is total_monthly_cost * 12 +
\* total_yearly_cost, the two totals being the amounts of the user's active
\* monthly and active yearly subscriptions; subscriptions that are not active
\* or are weekly are in neither, and every active subscription is counted in
\* the category breakdown, whose counts add up to active_subscriptions.
C6_InsightsTotals ==
    IsInsightsReply =>
        LET u == response.args.user_id
            r == response.body
            monthly == {i \in ActiveOf(u) :
                            subscriptions[i].billing_cycle = "monthly"}
            yearly == {i \in ActiveOf(u) :
                            subscriptions[i].billing_cycle = "yearly"}
            InCategory(c) == {i \in ActiveOf(u) : subscriptions[i].category = c}
        IN  /\ r.total_monthly_cost = SumAmount(monthly)
            /\ r.total_yearly_cost = SumAmount(yearly)
            /\ r.annual_projection =
                    r.total_monthly_cost * 12 + r.total_yearly_cost
            /\ r.active_subscriptions = Cardinality(ActiveOf(u))
            /\ DOMAIN r.category_breakdown =
                    {subscriptions[i].category : i \in ActiveOf(u)}
            /\ \A c \in DOMAIN r.category_breakdown :
                    /\ r.category_breakdown[c].count = Cardinality(InCategory(c))
                    /\ r.category_breakdown[c].total = SumAmount(InCategory(c))
            /\ SumCounts(r.category_breakdown, DOMAIN r.category_breakdown)
                    = r.active_subscriptions

\* insights over active monthly, yearly and weekly subscriptions and one
\* that is no longer active
C6_Witness ==
    /\ IsInsightsReply
    /\ response.body.total_yearly_cost = Dollars(120, 0)
    /\ response.body.total_monthly_cost > 0
    /\ \E i, j \in SubsOf(response.args.user_id) :
            /\ subscriptions[i].billing_cycle = "weekly"
            /\ subscriptions[i].status = "active"
            /\ subscriptions[j].status = "cancelled"

----------------------------------------------------------------------------
(* The detector (C7, C8, C9)                                               *)

\* a call has returned the validated candidates of a response
DetectorValidated ==
    /\ detector.pc = "returned"
    /\ detector.outcome = "responded"
    /\ ~IsNone(re_search(detector.content))
    /\ json_loads(Value(re_search(detector.content))).ok

\* the candidates of that response, in its order
InputCandidates == json_loads(Value(re_search(detector.content))).val.items

\* a JSON number; true, false, null and strings are not
IsJsonNumber(v) == v.t = "number"

HasRequiredFields(sub) ==
    sub.kind = "dict" /\ required_fields \subseteq DOMAIN sub.fields

AcceptableAmount(sub) ==
    IsJsonNumber(sub.fields.amount) /\ sub.fields.amount.n > 0

\* the candidate with the three repairs made
Repaired(sub) ==
    JDict([sub.fields EXCEPT
        !.category = IF InStrings(@, valid_categories) THEN @
                     ELSE Str("other"),
        !.billing_cycle = IF InStrings(@, valid_cycles) THEN @
                          ELSE Str("monthly"),
        !.confidence = IF IsJsonNumber(@) /\ 0 <= @.n /\ @.n <= 100 THEN @
                       ELSE Num(80)])

\* C7: every candidate with the six required fields and a numeric amount
\* above 0 is in the output with its name, company and amount as they were,
\* a category outside the closed set replaced by "other", a billing cycle
\* outside monthly, yearly, weekly replaced by "monthly", a confidence that
\* is no number or lies outside [0, 1] replaced by 0.8, and every valid
\* category, billing cycle and confidence as it was.
C7_ValidationRepairs ==
    DetectorValidated =>
        \A i \in 1..Len(InputCandidates) :
            LET sub == InputCandidates[i]
            IN  (HasRequiredFields(sub) /\ AcceptableAmount(sub)) =>
                    \E j \in 1..Len(detector.result) :
                        detector.result[j] = Repaired(sub)

\* what no repair changes
Identity(sub) == <<sub.fields.name, sub.fields.company, sub.fields.amount>>

RECURSIVE KeptIdentities(_)
KeptIdentities(subs) ==
    IF subs = <<>> THEN <<>>
    ELSE IF HasRequiredFields(Head(subs)) /\ AcceptableAmount(Head(subs))
    THEN <<Identity(Head(subs))>> \o KeptIdentities(Tail(subs))
    ELSE KeptIdentities(Tail(subs))

\* C8: the output is the response's candidates, in their order, without
\* exactly those that miss a required field or whose amount is no number or
\* is 0 or less; it may be empty.
C8_ValidationDrops ==
    DetectorValidated =>
        [j \in 1..Len(detector.result) |-> Identity(detector.result[j])]
            = KeptIdentities(InputCandidates)

IsFallbackItem(sub, name, amount) ==
    /\ sub.kind = "dict"
    /\ sub.fields.name = Str(name)
    /\ sub.fields.amount = Num(amount)
    /\ sub.fields.billing_cycle = Str("monthly")

IsFallback(subs) ==
    /\ Len(subs) = 2
    /\ IsFallbackItem(subs[1], "Amazon Prime", 1499)
    /\ IsFallbackItem(subs[2], "Microsoft 365", 699)

\* no "[" of the text has a "]" after it
NoArrayText(content) ==
    ~\E i, j \in 1..Len(content) :
        i < j /\ content[i] = LB /\ content[j] = RB

UnparsableArrayText(content) ==
    /\ ~NoArrayText(content)
    /\ ~json_loads(Value(re_search(content))).ok

\* C9: a call of analyze_bank_statement returns a list to its caller; the
\* list is the two-item fallback when there is no client, when the backend
\* call raises, when the response is empty or has no array text, and when
\* the array text is no JSON; without a client the backend is not called.
C9_Fallback ==
    detector.pc = "returned" =>
        /\ response.op = "analyze_bank_statement"
        /\ response.status = 0
        /\ response.body = detector.result
        /\ ~detector.client =>
              IsFallback(detector.result) /\ detector.calls = 0
        /\ detector.outcome = "raised" => IsFallback(detector.result)
        /\ (/\ detector.outcome = "responded"
            /\ \/ detector.content = <<>>
               \/ NoArrayText(detector.content)
               \/ UnparsableArrayText(detector.content)) =>
              IsFallback(detector.result)

C9_Witness ==
    /\ detector.pc = "returned"
    /\ detector.client
    /\ detector.calls = 1
    /\ detector.outcome = "responded"
    /\ UnparsableArrayText(detector.content)
    /\ Len(detector.content) = 3
    /\ IsFallback(detector.result)

----------------------------------------------------------------------------
(* update_subscription (C10), under SpecStore.                             *)

UpdateStep ==
    response = NoResponse /\ response'.op = "update_subscription"

\* C10: update_subscription on an id that is not in the store returns None
\* and changes no record; on an id that is in the store it sets the fields
\* the update names among the record's attributes, sets updated_at to the
\* current time, keeps every other field of the record, adds no attribute,
\* and keeps every other record.
C10_UpdateSubscription ==
    [][UpdateStep =>
        LET id == response'.args.subscription_id
            updates == PartialUpdates[response'.args.updates]
        IN  /\ <<users, bill_negotiations, price_alerts>>' =
                    <<users, bill_negotiations, price_alerts>>
            /\ id \notin Keys(subscriptions) =>
                    /\ IsNone(response'.body)
                    /\ subscriptions' = subscriptions
            /\ id \in Keys(subscriptions) =>
                    /\ Len(subscriptions') = Len(subscriptions)
                    /\ \A i \in 1..Len(subscriptions) :
                        LET old == subscriptions[i]
                            new == subscriptions'[i]
                        IN  IF old.id # id THEN new = old
                            ELSE /\ response'.body = Some(new)
                                 /\ DOMAIN new = DOMAIN old
                                 /\ new.updated_at = now
                                 /\ \A f \in DOMAIN old \ {"updated_at"} :
                                        new[f] = IF f \in DOMAIN updates
                                                 THEN updates[f] ELSE old[f]
    ]_vars

\* an update naming a known and an unknown attribute has been applied to a
\* record after the clock moved, and an update of an absent id was refused
C10_Witness ==
    /\ response.op = "update_subscription"
    /\ response.args.subscription_id = "sub-1"
    /\ PartialUpdates[response.args.updates] =
            [status |-> "paused", nickname |-> "mine"]
    /\ ~IsNone(response.body)
    /\ Value(response.body).status = "paused"
    /\ Value(response.body).updated_at = hours(12)
    /\ Value(response.body).name = "Renamed"
    /\ Value(DictGet(subscriptions, "sub-2")).updated_at = 0

----------------------------------------------------------------------------
(* The payment adapter (C14), under SpecStripe.                            *)

DisabledCallReturned == stripe.pc = "returned" /\ ~stripe.enabled

\* C14: a call of the disabled payment adapter sends nothing to the
\* processor; create_customer returns None to its caller without raising,
\* create_payment_intent raises the 503 condition, and confirm_payment
\* returns the status "disabled".
C14_DisabledAdapter ==
    DisabledCallReturned =>
        /\ stripe.calls = 0
        /\ stripe.sent = <<>>
        /\ response.op = "create_customer" =>
              response.status = 0 /\ response.body = None
        /\ response.op = "create_payment_intent" => response.status = 503
        /\ response.op = "confirm_payment" =>
              response.status = 0 /\ response.body = [status |-> "disabled"]

C14_Witness ==
    /\ DisabledCallReturned
    /\ response.op = "create_payment_intent"
    /\ response.args.payment_data = PaymentCreate("premium", "USD")
    /\ response.status = 503
    /\ stripe.calls = 0

----------------------------------------------------------------------------
(* No retries (C15), under SpecAdapters.                                   *)

\* C15: a call of the detector or of the payment adapter invokes its
\* external service at most once; when that invocation raises, the detector
\* returns the fallback list and the payment adapter raises the 500
\* condition to its caller, never a value.
C15_NoRetries ==
    /\ detector.pc = "returned" =>
          /\ detector.calls <= 1
          /\ detector.outcome = "raised" => IsFallback(detector.result)
    /\ stripe.pc = "returned" =>
          /\ stripe.calls <= 1
          /\ stripe.raised => response.status = 500

----------------------------------------------------------------------------
(* The users of the store (C11, C12), under SpecSavings.                   *)

\* a handler takes up a request and leaves the answer to it
Handles(ops) == response = NoResponse /\ response'.op \in ops

UserIdsOf(records) == {records[i].user_id : i \in 1..Len(records)}

ReferencesExist ==
    UserIdsOf(subscriptions) \cup UserIdsOf(bill_negotiations)
        \cup UserIdsOf(price_alerts) \subseteq Keys(users)

\* C11: in every reachable store every subscription, bill negotiation and
\* price alert has the id of a stored user as its user_id; a creation
\* request for an unknown user id is answered 404 and inserts nothing; no
\* request removes a user.
C11_UserReferences ==
    /\ []ReferencesExist
    /\ [][/\ Keys(users) \subseteq Keys(users')
          /\ (/\ Handles({"create_subscription", "create_bill_negotiation"})
              /\ response'.args.user_id \notin Keys(users)) =>
                    /\ response'.status = 404
                    /\ UNCHANGED store_vars]_vars

C11_Witness ==
    /\ response.op = "create_subscription"
    /\ response.args.user_id = "no-such-user"
    /\ response.status = 404
    /\ Len(users) = 2
    /\ \E i \in 1..Len(subscriptions) : subscriptions[i].user_id = users[2].id
    /\ \E i \in 1..Len(bill_negotiations) :
            bill_negotiations[i].user_id \in Keys(users)

EmailsOf(records) == {records[i].email : i \in 1..Len(records)}

\* C12: no two stored users have the same email; a create-user request with
\* the email of a stored user is answered 400 and leaves the users as they
\* are; any other adds exactly one user, with that email.
C12_UniqueEmails ==
    /\ [](\A i, j \in 1..Len(users) :
            users[i].email = users[j].email => i = j)
    /\ [][Handles({"create_user"}) =>
            IF response'.args.email \in EmailsOf(users)
            THEN response'.status = 400 /\ users' = users
            ELSE /\ response'.status = 200
                 /\ Len(users') = Len(users) + 1
                 /\ SubSeq(users', 1, Len(users)) = users
                 /\ users'[Len(users')].email = response'.args.email
                 /\ users'[Len(users')].id \notin Keys(users)]_vars

C12_Witness ==
    /\ response.op = "create_user"
    /\ response.args.email = "fresh@example.com"
    /\ response.status = 400
    /\ Len(users) = 2
    /\ users[2].email = "fresh@example.com"

----------------------------------------------------------------------------
(* The life of a bill negotiation (C13), under SpecNegotiation.            *)

\* 15% of an amount, where the amount has one
IsFifteenPercent(savings, amount) == savings * 100 = amount * 15

Terminal == {"completed", "failed"}

\* C13: a negotiation is created pending with 15% of its current amount as
\* savings_potential; complete_negotiation makes it completed, with the
\* actual savings as savings_potential and with completed_at set; once a
\* negotiation is completed or failed, no request changes its status or
\* its savings_potential.
C13_NegotiationLifecycle ==
    [][/\ (Handles({"create_bill_negotiation"}) /\ response'.status = 200) =>
            LET created == bill_negotiations'[Len(bill_negotiations')]
            IN  /\ Len(bill_negotiations') = Len(bill_negotiations) + 1
                /\ created.status = "pending"
                /\ ~IsNone(created.savings_potential)
                /\ IsFifteenPercent(Value(created.savings_potential),
                                    created.current_amount)
                /\ IsNone(created.completed_at)
       /\ (Handles({"complete_negotiation"}) /\ response'.status = 200) =>
            LET completed ==
                    Value(DictGet(bill_negotiations',
                                  response'.args.negotiation_id))
            IN  /\ completed.status = "completed"
                /\ completed.savings_potential =
                        Some(response'.args.actual_savings)
                /\ completed.completed_at = Some(now)
       /\ \A i \in 1..Len(bill_negotiations) :
            bill_negotiations[i].status \in Terminal =>
                /\ i <= Len(bill_negotiations')
                /\ bill_negotiations'[i].id = bill_negotiations[i].id
                /\ bill_negotiations'[i].status = bill_negotiations[i].status
                /\ bill_negotiations'[i].savings_potential
                        = bill_negotiations[i].savings_potential]_vars

----------------------------------------------------------------------------
(* The detector is a function of its inputs (C16), under SpecDetector.     *)

\* what a call returns, from the client, the backend's outcome and its text
DetectorOutput(client, outcome, content) ==
    IF ~client \/ outcome = "raised" THEN _get_mock_subscriptions
    ELSE _parse_claude_response(content)

\* C16: the list a call returns depends on nothing but whether there is a
\* client, the outcome of the backend call and the text of its response;
\* and validating the returned list again returns it as it is, with no
\* candidate dropped and no field changed.
C16_Idempotent ==
    detector.pc = "returned" =>
        /\ detector.result =
                DetectorOutput(detector.client, detector.outcome,
                               detector.content)
        /\ ValidatedSubscriptions(detector.result) = detector.result

C16_Witness ==
    /\ DetectorValidated
    /\ Len(InputCandidates) = 2
    /\ Len(detector.result) = 2
    /\ InputCandidates[1].kind = "dict"
    /\ InputCandidates[1].fields.category = Str("music")
    /\ detector.result[1].fields.category = Str("other")
    /\ detector.result[2].fields.confidence = Bool(TRUE)

----------------------------------------------------------------------------
(* Price alerts (C17), under SpecAlerts.                                   *)

\* C17: the price-alert store is empty in every reachable state; the
\* listing of a stored user's price alerts is empty, every acknowledge
\* request is answered 404, and no request changes an alert.
C17_NoPriceAlerts ==
    /\ [](/\ price_alerts = <<>>
          /\ (/\ response.op = "get_price_alerts"
              /\ response.args.user_id \in Keys(users)) =>
                    response.status = 200 /\ response.body = <<>>
          /\ response.op = "acknowledge_price_alert" =>
                    response.status = 404)
    /\ [][price_alerts' = price_alerts]_vars

C17_Witness ==
    /\ response.op = "acknowledge_price_alert"
    /\ response.status = 404
    /\ Len(users) = 2
    /\ Len(subscriptions) = Len(sample_subscriptions) + 1
    /\ \E i \in 1..Len(subscriptions) : subscriptions[i].status = "cancelled"
    /\ db_get_user_price_alerts(users[2].id) = <<>>

----------------------------------------------------------------------------
(* Cancel and pause (C18), under SpecSavings.                              *)

\* the subscription a request names, before the request and after it
Named == Value(DictGet(subscriptions, response'.args.subscription_id))
NamedAfter == Value(DictGet(subscriptions', response'.args.subscription_id))

\* the savings report of user u is as it was
ReportKept(u) == db_get_user_savings_report(u)' = db_get_user_savings_report(u)

\* the monthly_savings of user u is lower than it was, by amount
MonthlyLowered(u, amount) ==
    /\ db_get_user_savings_report(u)'.monthly_savings
            = db_get_user_savings_report(u).monthly_savings - amount
    /\ db_get_user_savings_report(u)'.monthly_savings
            < db_get_user_savings_report(u).monthly_savings

\* all subscriptions but the named one are as they were, where they were
OthersUnchanged ==
    /\ Len(subscriptions') = Len(subscriptions)
    /\ \A i \in 1..Len(subscriptions) :
            subscriptions[i].id # response'.args.subscription_id =>
                subscriptions'[i] = subscriptions[i]

SetsStatus(op, status) ==
    Handles({op}) =>
        IF response'.args.subscription_id \in Keys(subscriptions)
        THEN /\ response'.status = 200
             /\ NamedAfter = [Named EXCEPT !.status = status,
                                  !.updated_at = NamedAfter.updated_at]
             /\ OthersUnchanged
             /\ UNCHANGED <<users, bill_negotiations, price_alerts, uuids>>
        ELSE response'.status = 404 /\ UNCHANGED store_vars

\* a request on a stored subscription that is cancelled
OnCancelled(op) ==
    /\ Handles({op})
    /\ response'.args.subscription_id \in Keys(subscriptions)
    /\ Named.status = "cancelled"

\* C18: cancel and pause answer 200 for a stored subscription of any status
\* and set its status to cancelled and paused, changing nothing else but
\* updated_at; for an unknown id they answer 404 and change nothing.
\* Cancelling a cancelled subscription leaves its user's savings report as
\* it is; pausing or deleting a cancelled subscription lowers monthly_savings
\* by its amount.
C18_CancelPause ==
    [][/\ SetsStatus("cancel_subscription", "cancelled")
       /\ SetsStatus("pause_subscription", "paused")
       /\ OnCancelled("cancel_subscription") =>
            \A u \in Keys(users) : ReportKept(u)
       /\ OnCancelled("pause_subscription") \/ OnCancelled("delete_subscription")
            => /\ response'.status = 200
               /\ \E u \in Keys(users) :
                    u = Named.user_id /\ MonthlyLowered(u, Named.amount)
      ]_vars

C18_Witness ==
    /\ response.op = "pause_subscription"
    /\ response.status = 200
    /\ response.args.subscription_id = "sub-1"
    /\ response.body.subscription.status = "paused"
    /\ db_get_user_savings_report(sample_user.id).monthly_savings = 0
    /\ \E i \in 1..Len(subscriptions) : subscriptions[i].status = "cancelled"

====
